---- MODULE Spec2Model ----
(***************************************************************************)
(* DatetimeColumn of python/cudf/dataframe/datetime.py as a state machine. *)
(*                                                                         *)
(* The state is a small object store: device buffers (heap), column        *)
(* objects (objs) that reference buffers by identity, the caller's         *)
(* references to the last returned columns (r, i), the description of the  *)
(* last call (ret), the serialized form in flight (wire) and the number of *)
(* open profiling ranges (nvtx).  Object 1 is the caller's original        *)
(* column.  Buffer and object identities matter (replace shares buffers,   *)
(* astype may return the receiver itself), so columns hold buffer ids and  *)
(* the caller holds object ids.                                            *)
(***************************************************************************)
EXTENDS Integers, Sequences, FiniteSets

VARIABLES heap, objs, r, i, ret, wire, nvtx, calls

vars == <<heap, objs, r, i, ret, wire, nvtx, calls>>

(* ---------------------------- bounds ---------------------------------- *)

MaxLen == 2
MaxCalls == 2

(* ------------------------- value universe ----------------------------- *)

\* the millisecond ticks the initial column and the fill values are drawn
\* from (TLC's integers are 32 bits wide, so nanosecond values stay within
\* about two seconds of the epoch)
Ticks == {0, 1500}

None == 0
Omitted == -1

DT_MS == "datetime64[ms]"

SeqOfLen(S, n) == [1..n -> S]

\* number of unset bits of a validity bitmap
CountUnset(m) == Cardinality({k \in DOMAIN m : m[k] = 0})

(* ------------------------- buffers (Buffer) --------------------------- *)

\* Buffer(ary): a new device buffer holding ary; the store grows by one
Buffer(h, ary) == [h |-> Append(h, ary), id |-> Len(h) + 1]

(* ---------------------- Column Core (base class) ---------------------- *)

NoCol == [cls |-> "none", data |-> None, mask |-> None,
          null_count |-> 0, dtype |-> "none"]

\* base constructor: a missing mask means no nulls; an omitted null_count is
\* counted from the mask; a given one is recorded as given
TypedColumnBase(h, cls, data, mask, null_count, dtype) ==
    [cls |-> cls, data |-> data, mask |-> mask,
     null_count |-> IF mask = None THEN 0
                    ELSE IF null_count = Omitted THEN CountUnset(h[mask])
                    ELSE null_count,
     dtype |-> dtype]

precision_inverse == 1000

\* DatetimeColumn.__init__
DatetimeColumn(h, data, mask, null_count, dtype) ==
    TypedColumnBase(h, "DatetimeColumn", data, mask, null_count, dtype)

\* self._pandas_conversion_factor = 1e9 * self._precision
pandas_conversion_factor == 1000000000 \div precision_inverse

ColLen(h, col) == Len(h[col.data])

has_null_mask(col) == col.mask # None

\* Column.replace(**kwargs): same class, named fields substituted; when the mask
\* is substituted and no null_count is given, the count is taken from the new mask
replace(h, col, data, mask, null_count, dtype, maskGiven) ==
    TypedColumnBase(h, col.cls,
        IF data = Omitted THEN col.data ELSE data,
        IF maskGiven THEN mask ELSE col.mask,
        IF null_count # Omitted THEN null_count
        ELSE IF maskGiven THEN Omitted ELSE col.null_count,
        IF dtype = "" THEN col.dtype ELSE dtype)

\* what a reader of the column sees: contents, not identities
View(h, col) ==
    IF col.cls = "none" THEN [data |-> <<>>, mask |-> <<-1>>, null_count |-> 0, dtype |-> "none"]
    ELSE [data |-> h[col.data],
          mask |-> IF col.mask = None THEN <<-1>> ELSE h[col.mask],
          null_count |-> col.null_count,
          dtype |-> col.dtype]

(* ------------------------ result of one call -------------------------- *)

\* What a call leaves behind: the store, the receiver after the call, the
\* returned column(s), whether the returned column is the receiver object
\* itself, the error raised ("" for none), the engine calls made, the
\* number of output columns allocated and a returned scalar (<<>> for none).
Result(h, self, out, out2, same, raised, engine, allocs, value) ==
    [h |-> h, self |-> self, out |-> out, out2 |-> out2, same |-> same,
     raised |-> raised, engine |-> engine, allocs |-> allocs, value |-> value,
     open |-> 0]

\* a returned host value: a scalar, a null scalar, NaT or an exported array
NoValue == [kind |-> "none", data |-> <<>>, mask |-> <<>>, n |-> 0,
            null_count |-> 0, dtype |-> ""]

Scalar(kind, v) == [NoValue EXCEPT !.kind = kind, !.data = v]

Raise(h, self, err, engine, allocs) ==
    Result(h, self, NoCol, NoCol, FALSE, err, engine, allocs, NoValue)

Return(h, self, out, engine, allocs) ==
    Result(h, self, out, NoCol, FALSE, "", engine, allocs, NoValue)

ReturnValue(h, self, value, engine) ==
    Result(h, self, NoCol, NoCol, FALSE, "", engine, 0, value)

(* ------------------- host scalars (datetime, pandas, numpy) ----------- *)

\* nanoseconds per unit of a numpy datetime64 unit
UnitNs(unit) ==
    CASE unit = "ns" -> 1
      [] unit = "us" -> 1000
      [] unit = "ms" -> 1000000
      [] unit = "s"  -> 1000000000

\* isinstance(other, cls): pandas.Timestamp is a subclass of datetime.datetime
isinstance(other, cls) ==
    CASE cls = "dt.datetime"   -> other.kind \in {"datetime", "Timestamp"}
      [] cls = "pd.Timestamp"  -> other.kind = "Timestamp"
      [] cls = "np.datetime64" -> other.kind = "datetime64"

\* other.astype(unit) of a numpy datetime64: to a coarser unit the value is
\* floored, to a finer one it is scaled
np_astype(other, unit) ==
    [kind |-> "datetime64", unit |-> unit,
     value |-> IF UnitNs(other.unit) <= UnitNs(unit)
               THEN other.value \div (UnitNs(unit) \div UnitNs(other.unit))
               ELSE other.value * (UnitNs(other.unit) \div UnitNs(unit))]

\* np.datetime64(other) of a datetime object: its fields down to the
\* microsecond (a Timestamp's nanosecond field is not one of them)
np_datetime64(other) ==
    [kind |-> "datetime64", unit |-> "us",
     value |-> IF other.kind = "Timestamp" THEN other.value \div 1000
               ELSE other.value]

\* utils.scalar_broadcast_to(scalar, shape, dtype)
scalar_broadcast_to(scalar, shape) == [k \in 1..shape |-> scalar]

(* ---------------- Scalar/Array Coercion (normalize_binop_value) ------- *)

\* variant: the numpy scalar is broadcast without other.astype(ms)
normalize_binop_value_unconverted(h, self, other) ==
    LET o1 == IF isinstance(other, "dt.datetime") THEN np_datetime64(other)
              ELSE other
    IN  IF isinstance(o1, "pd.Timestamp") \/ isinstance(o1, "np.datetime64")
        THEN LET ary == scalar_broadcast_to(o1.value, ColLen(h, self))
                 buf == Buffer(h, ary)
                 result == replace(buf.h, self, buf.id, None, Omitted,
                                   self.dtype, FALSE)
             IN  Return(buf.h, self, result, <<>>, 0)
        ELSE Raise(h, self, "TypeError", <<>>, 0)

normalize_binop_value(h, self, other) ==
    LET o1 == IF isinstance(other, "dt.datetime") THEN np_datetime64(other)
              ELSE other
    IN  IF isinstance(o1, "pd.Timestamp") \/ isinstance(o1, "np.datetime64")
        THEN LET ary == IF isinstance(o1, "pd.Timestamp")
                        THEN scalar_broadcast_to(
                                 o1.value * pandas_conversion_factor,
                                 ColLen(h, self))
                        ELSE scalar_broadcast_to(
                                 np_astype(o1, "ms").value,
                                 ColLen(h, self))
                 buf == Buffer(h, ary)
                 result == replace(buf.h, self, buf.id, None, Omitted,
                                   self.dtype, FALSE)
             IN  Return(buf.h, self, result, <<>>, 0)
        ELSE Raise(h, self, "TypeError", <<>>, 0)

(* ----------------------- compute engine: fields ------------------------ *)

SupportedFields == {"year", "month", "day", "hour", "minute", "second"}

\* calendar date of a day number (days since the epoch)
CivilFromDays(days) ==
    LET z   == days + 719468
        era == z \div 146097
        doe == z - era * 146097
        yoe == (doe - doe \div 1460 + doe \div 36524 - doe \div 146096) \div 365
        doy == doe - (365 * yoe + yoe \div 4 - yoe \div 100)
        mp  == (5 * doy + 2) \div 153
        d   == doy - (153 * mp + 2) \div 5 + 1
        m   == IF mp < 10 THEN mp + 3 ELSE mp - 9
    IN  [year |-> yoe + era * 400 + (IF m <= 2 THEN 1 ELSE 0),
         month |-> m, day |-> d]

\* the field of one millisecond tick
ExtractField(t, field) ==
    LET secs == t \div 1000
        date == CivilFromDays(secs \div 86400)
    IN  CASE field = "year"   -> date.year
          [] field = "month"  -> date.month
          [] field = "day"    -> date.day
          [] field = "hour"   -> (secs % 86400) \div 3600
          [] field = "minute" -> (secs % 3600) \div 60
          [] field = "second" -> secs % 60

Bit(b) == IF b THEN 1 ELSE 0

\* validity of element k of a column
IsValid(h, col, k) == col.mask = None \/ h[col.mask][k] = 1

\* columnops.column_empty_like(column, dtype, masked): a new data buffer and,
\* when masked, a new mask buffer
column_empty_like(h, col, dtype, masked) ==
    LET n    == ColLen(h, col)
        dbuf == Buffer(h, [k \in 1..n |-> 0])
        mbuf == IF masked THEN Buffer(dbuf.h, [k \in 1..n |-> 0])
                ELSE [h |-> dbuf.h, id |-> None]
    IN  [h |-> mbuf.h,
         col |-> TypedColumnBase(mbuf.h, "NumericalColumn", dbuf.id, mbuf.id,
                                 Omitted, dtype)]

\* columnops.column_empty_like_same_mask(column, dtype): a new data buffer,
\* the mask buffer and the null count of the given column
column_empty_like_same_mask(h, col, dtype) ==
    LET buf == Buffer(h, [k \in 1..ColLen(h, col) |-> 0])
    IN  [h |-> buf.h,
         col |-> TypedColumnBase(buf.h, "NumericalColumn", buf.id, col.mask,
                                 col.null_count, dtype)]

\* cpp_unaryops.apply_dt_extract_op(incol, outcol, op): fills outcol's data
\* buffer; a field it does not know is an engine error
apply_dt_extract_op(h, incol, outcol, op) ==
    IF op \in SupportedFields
    THEN [ok |-> TRUE,
          h |-> [h EXCEPT ![outcol.data] =
                    [k \in 1..ColLen(h, incol) |-> ExtractField(h[incol.data][k], op)]]]
    ELSE [ok |-> FALSE, h |-> h]

(* ----------------------- Field Extractor ------------------------------ *)

\* variant: the output is allocated without the source's mask
get_dt_field_unmasked(h, self, field) ==
    LET out == column_empty_like(h, self, "int16", FALSE)
        ext == apply_dt_extract_op(out.h, self, out.col, field)
    IN  IF ext.ok
        THEN Return(ext.h, self, out.col, <<"apply_dt_extract_op">>, 1)
        ELSE Raise(ext.h, self, "GDFError", <<"apply_dt_extract_op">>, 1)

get_dt_field(h, self, field) ==
    LET out == column_empty_like_same_mask(h, self, "int16")
        ext == apply_dt_extract_op(out.h, self, out.col, field)
    IN  IF ext.ok
        THEN Return(ext.h, self, out.col, <<"apply_dt_extract_op">>, 1)
        ELSE Raise(ext.h, self, "GDFError", <<"apply_dt_extract_op">>, 1)

(* ----------------------- compute engine: binary ops ------------------- *)

CmpOps == {"lt", "le", "gt", "ge", "eq", "ne"}

Compare(a, b, op) ==
    CASE op = "lt" -> a < b
      [] op = "le" -> a <= b
      [] op = "gt" -> a > b
      [] op = "ge" -> a >= b
      [] op = "eq" -> a = b
      [] op = "ne" -> a # b

\* cpp_binops.apply_op(lhs, rhs, out, op): writes the element-wise result and
\* the combined validity into out, returns the number of nulls of out
apply_op(h, lhs, rhs, out, op) ==
    LET n     == ColLen(h, lhs)
        data  == [k \in 1..n |-> Bit(Compare(h[lhs.data][k], h[rhs.data][k], op))]
        valid == [k \in 1..n |-> Bit(IsValid(h, lhs, k) /\ IsValid(h, rhs, k))]
        h1    == [h EXCEPT ![out.data] = data]
    IN  IF out.mask = None
        THEN [h |-> h1, null_count |-> 0]
        ELSE [h |-> [h1 EXCEPT ![out.mask] = valid],
              null_count |-> CountUnset(valid)]

(* ----------------------- profiling ranges ----------------------------- *)

nvtx_range_push(depth) == depth + 1

nvtx_range_pop(depth) == depth - 1

(* ----------------------- Binary-Op Dispatcher ------------------------- *)

\* fault: what fails in the engine during the call ("none", "alloc" when the
\* output allocation fails, "engine" when apply_op fails)
\* variant: only lhs decides whether the output is masked
binop_lhs_mask_only(h, lhs, rhs, op, out_dtype, fault) ==
    LET d1     == nvtx_range_push(0)
        masked == has_null_mask(lhs)
        out    == column_empty_like(h, lhs, out_dtype, masked)
        res    == apply_op(out.h, lhs, rhs, out.col, op)
        out1   == replace(res.h, out.col, Omitted, None, res.null_count, "", FALSE)
        d2     == nvtx_range_pop(d1)
    IN  IF fault = "alloc"
        THEN [Raise(h, lhs, "MemoryError", <<>>, 0) EXCEPT !.open = d1]
        ELSE IF fault = "engine"
        THEN [Raise(out.h, lhs, "GDFError", <<"apply_op">>, 1) EXCEPT !.open = d1]
        ELSE [Return(res.h, lhs, out1, <<"apply_op">>, 1) EXCEPT !.open = d2]

binop(h, lhs, rhs, op, out_dtype, fault) ==
    LET d1     == nvtx_range_push(0)
        masked == has_null_mask(lhs) \/ has_null_mask(rhs)
        out    == column_empty_like(h, lhs, out_dtype, masked)
        res    == apply_op(out.h, lhs, rhs, out.col, op)
        out1   == replace(res.h, out.col, Omitted, None, res.null_count, "", FALSE)
        d2     == nvtx_range_pop(d1)
    IN  IF fault = "alloc"
        THEN [Raise(h, lhs, "MemoryError", <<>>, 0) EXCEPT !.open = d1]
        ELSE IF fault = "engine"
        THEN [Raise(out.h, lhs, "GDFError", <<"apply_op">>, 1) EXCEPT !.open = d1]
        ELSE [Return(res.h, lhs, out1, <<"apply_op">>, 1) EXCEPT !.open = d2]

unordered_compare(h, self, cmpop, rhs, fault) ==
    binop(h, self, rhs, cmpop, "bool", fault)

ordered_compare(h, self, cmpop, rhs, fault) ==
    binop(h, self, rhs, cmpop, "bool", fault)

(* ----------------------- numeric view and casts ----------------------- *)

\* Buffer.astype(dtype): the buffer itself when it already has that dtype,
\* else a converted copy
Buffer_astype(h, col, dtype) ==
    IF col.dtype = dtype THEN [h |-> h, id |-> col.data]
    ELSE Buffer(h, h[col.data])

\* Column.view(cls, dtype, data): a column of class cls over the given data,
\* with the receiver's mask and null count
view(h, col, cls, dtype, data) ==
    TypedColumnBase(h, cls, data, col.mask, col.null_count, dtype)

as_numerical(h, self) ==
    LET buf == Buffer_astype(h, self, "int64")
    IN  [h |-> buf.h,
         col |-> view(buf.h, self, "NumericalColumn", "int64", buf.id)]

\* an int64 value cast to a narrower signed integer type wraps
CastInt(v, dtype) ==
    IF dtype = "int16" THEN ((v + 32768) % 65536) - 32768 ELSE v

\* NumericalColumn.astype(dtype): itself for its own dtype, else a new column
\* with the data converted and the same mask
numerical_astype(h, col, dtype) ==
    IF col.dtype = dtype THEN [h |-> h, col |-> col]
    ELSE LET buf == Buffer(h, [k \in DOMAIN h[col.data] |->
                                   CastInt(h[col.data][k], dtype)])
         IN  [h |-> buf.h,
              col |-> replace(buf.h, col, buf.id, None, Omitted, dtype, FALSE)]

\* identical: the dtype argument is the very object self.dtype
\* (self.dtype is dtype)
astype(h, self, dtype, identical) ==
    IF identical
    THEN Result(h, self, self, NoCol, TRUE, "", <<>>, 0, NoValue)
    ELSE LET num == as_numerical(h, self)
             res == numerical_astype(num.h, num.col, dtype)
         IN  Return(res.h, self, res.col, <<>>, 0)

(* ----------------------- Array-Format Bridge -------------------------- *)

np_to_pa_dtype(dtype) == IF dtype = DT_MS THEN "timestamp[ms]" ELSE dtype

to_arrow(h, self) ==
    LET mask == IF has_null_mask(self) THEN h[self.mask] ELSE <<-1>>
        data == h[self.data]
    IN  ReturnValue(h, self,
            [kind |-> "arrow", data |-> data, mask |-> mask,
             n |-> ColLen(h, self), null_count |-> self.null_count,
             dtype |-> np_to_pa_dtype(self.dtype)],
            <<>>)

(* ----------------------- default NA value ----------------------------- *)

\* numpy's dtype.kind
DtypeKind(dtype) ==
    IF dtype = DT_MS THEN "M" ELSE IF dtype = "bool" THEN "b" ELSE "i"

default_na_value(h, self) ==
    IF DtypeKind(self.dtype) = "M"
    THEN ReturnValue(h, self, Scalar("nat", <<>>), <<>>)
    ELSE Raise(h, self, "TypeError", <<>>, 0)

(* ----------------------- Null Filler ---------------------------------- *)

\* Column.copy(): a deep copy, with buffers of its own
copy(h, col) ==
    LET dbuf == Buffer(h, h[col.data])
        mbuf == IF col.mask = None THEN [h |-> dbuf.h, id |-> None]
                ELSE Buffer(dbuf.h, h[col.mask])
    IN  [h |-> mbuf.h,
         col |-> TypedColumnBase(mbuf.h, col.cls, dbuf.id, mbuf.id,
                                 col.null_count, col.dtype)]

\* columnops.as_column(fill_value, nan_as_null=False): a column over the given
\* host values, without a mask
as_column(h, vals) ==
    LET buf == Buffer(h, vals)
    IN  [h |-> buf.h,
         col |-> TypedColumnBase(buf.h, "DatetimeColumn", buf.id, None, 0, DT_MS)]

\* cpp_replace.replace_nulls(column, fill_column): writes the fill value into
\* the null positions of column, in place (a one-element fill column stands
\* for every position)
replace_nulls(h, col, fill) ==
    LET fv(k) == IF ColLen(h, fill) = 1 THEN h[fill.data][1] ELSE h[fill.data][k]
    IN  [h EXCEPT ![col.data] =
            [k \in DOMAIN h[col.data] |->
                IF IsValid(h, col, k) THEN h[col.data][k] ELSE fv(k)]]

\* Column._mimic_inplace(result, inplace): in place, the receiver takes over
\* the result's data, mask and null count and nothing is returned
mimic_inplace(h, self, result, inplace, engine) ==
    IF inplace
    THEN Result(h, [self EXCEPT !.data = result.data, !.mask = result.mask,
                                !.null_count = result.null_count],
                NoCol, NoCol, FALSE, "", engine, 1, NoValue)
    ELSE Return(h, self, result, engine, 1)

\* variant: the mask is not cleared after replace_nulls
fillna_keeps_mask(h, self, fill_value, inplace) ==
    LET result0 == copy(h, self)
        vals    == IF fill_value.scalar
                   THEN <<np_astype(fill_value.vals, "ms").value>>
                   ELSE fill_value.vals
        fillcol == as_column(result0.h, vals)
        h1      == replace_nulls(fillcol.h, result0.col, fillcol.col)
    IN  mimic_inplace(h1, self, result0.col, inplace, <<"replace_nulls">>)

\* variant: replace_nulls works on the receiver itself, not on a copy
fillna_no_copy(h, self, fill_value, inplace) ==
    LET vals    == IF fill_value.scalar
                   THEN <<np_astype(fill_value.vals, "ms").value>>
                   ELSE fill_value.vals
        fillcol == as_column(h, vals)
        h1      == replace_nulls(fillcol.h, self, fillcol.col)
        result  == replace(h1, self, Omitted, None, Omitted, "", TRUE)
    IN  mimic_inplace(h1, self, result, inplace, <<"replace_nulls">>)

\* fill_value: [scalar |-> BOOLEAN, vals |-> the millisecond ticks given];
\* a scalar is converted by np.datetime64(fill_value, 'ms'), an array-like by
\* pd.to_datetime(fill_value)
fillna(h, self, fill_value, inplace) ==
    LET result0 == copy(h, self)
        vals    == IF fill_value.scalar
                   THEN <<np_astype(fill_value.vals, "ms").value>>
                   ELSE fill_value.vals
        fillcol == as_column(result0.h, vals)
        h1      == replace_nulls(fillcol.h, result0.col, fillcol.col)
        result  == replace(h1, result0.col, Omitted, None, Omitted, "", TRUE)
    IN  mimic_inplace(h1, self, result, inplace, <<"replace_nulls">>)

(* ----------------------- Sorter --------------------------------------- *)

PermsOf(n) ==
    {p \in [1..n -> 1..n] : \A a, b \in 1..n : p[a] = p[b] => a = b}

\* position a comes before position b in the sorted order (stable: ties keep
\* their original order; nulls go to the requested end)
SortsBefore(h, col, a, b, ascending, na_position) ==
    LET va == IsValid(h, col, a)
        vb == IsValid(h, col, b)
        xa == h[col.data][a]
        xb == h[col.data][b]
    IN  IF va /\ vb
        THEN IF xa = xb THEN a < b
             ELSE IF ascending THEN xa < xb ELSE xa > xb
        ELSE IF ~va /\ ~vb THEN a < b
        ELSE IF na_position = "last" THEN va ELSE vb

\* get_sorted_inds(column, ascending, na_position): the column of the original
\* positions (from 0) in sorted order, without a mask
get_sorted_inds(h, col, ascending, na_position) ==
    LET n == ColLen(h, col)
        p == CHOOSE q \in PermsOf(n) :
                 \A a, b \in 1..n :
                     a < b => SortsBefore(h, col, q[a], q[b], ascending, na_position)
        buf == Buffer(h, [k \in 1..n |-> p[k] - 1])
    IN  [h |-> buf.h,
         col |-> TypedColumnBase(buf.h, "NumericalColumn", buf.id, None, 0, "int32")]

\* cudautils.gather(data, index)
gather(data, index) == [k \in DOMAIN index |-> data[index[k] + 1]]

\* self._get_mask_as_column().take(index).as_mask()
take_mask(mask, index) == [k \in DOMAIN index |-> mask[index[k] + 1]]

\* variant: the keys keep the receiver's mask, not gathered
sort_by_values_mask_not_gathered(h, self, ascending, na_position) ==
    LET sort_inds == get_sorted_inds(h, self, ascending, na_position)
        inds      == sort_inds.h[sort_inds.col.data]
        kbuf      == Buffer(sort_inds.h, gather(h[self.data], inds))
        col_keys  == replace(kbuf.h, self, kbuf.id, self.mask, self.null_count,
                             self.dtype, TRUE)
        col_inds  == replace(kbuf.h, self, sort_inds.col.data, sort_inds.col.mask,
                             Omitted, sort_inds.col.dtype, TRUE)
    IN  Result(kbuf.h, self, col_keys, col_inds, FALSE, "",
               <<"get_sorted_inds", "gather">>, 2, NoValue)

\* variant: the keys take the null count of the indices column
sort_by_values_inds_null_count(h, self, ascending, na_position) ==
    LET sort_inds == get_sorted_inds(h, self, ascending, na_position)
        inds      == sort_inds.h[sort_inds.col.data]
        kbuf      == Buffer(sort_inds.h, gather(h[self.data], inds))
        mbuf      == IF self.mask # None
                     THEN Buffer(kbuf.h, take_mask(h[self.mask], inds))
                     ELSE [h |-> kbuf.h, id |-> None]
        col_keys  == replace(mbuf.h, self, kbuf.id, mbuf.id,
                             sort_inds.col.null_count, self.dtype, TRUE)
        col_inds  == replace(mbuf.h, self, sort_inds.col.data, sort_inds.col.mask,
                             Omitted, sort_inds.col.dtype, TRUE)
    IN  Result(mbuf.h, self, col_keys, col_inds, FALSE, "",
               <<"get_sorted_inds", "gather">>, 2, NoValue)

sort_by_values(h, self, ascending, na_position) ==
    LET sort_inds == get_sorted_inds(h, self, ascending, na_position)
        inds      == sort_inds.h[sort_inds.col.data]
        kbuf      == Buffer(sort_inds.h, gather(h[self.data], inds))
        mbuf      == IF self.mask # None
                     THEN Buffer(kbuf.h, take_mask(h[self.mask], inds))
                     ELSE [h |-> kbuf.h, id |-> None]
        col_keys  == replace(mbuf.h, self, kbuf.id, mbuf.id, self.null_count,
                             self.dtype, TRUE)
        col_inds  == replace(mbuf.h, self, sort_inds.col.data, sort_inds.col.mask,
                             Omitted, sort_inds.col.dtype, TRUE)
    IN  Result(mbuf.h, self, col_keys, col_inds, FALSE, "",
               <<"get_sorted_inds", "gather">>, 2, NoValue)

(* ----------------------- Reducer -------------------------------------- *)

SetMin(S) == CHOOSE x \in S : \A y \in S : x <= y

SetMax(S) == CHOOSE x \in S : \A y \in S : x >= y

\* cpp_reduce.apply_reduce(op, column, dtype): over the non-null entries; a
\* null scalar when there are none
apply_reduce(h, op, col) ==
    LET S == {h[col.data][k] : k \in {j \in DOMAIN h[col.data] : IsValid(h, col, j)}}
    IN  IF S = {} THEN Scalar("null", <<>>)
        ELSE Scalar("scalar", <<IF op = "min" THEN SetMin(S) ELSE SetMax(S)>>)

min(h, self) == ReturnValue(h, self, apply_reduce(h, "min", self), <<"apply_reduce">>)

max(h, self) == ReturnValue(h, self, apply_reduce(h, "max", self), <<"apply_reduce">>)

(* ----------------------- Serializer ----------------------------------- *)

\* the framework's serialize callback on a dtype: a (header, frames) pair
serialize_dtype(dtype) == <<"numpy.dtype", <<dtype>>>>

\* the framework's deserialize callback on such a pair
deserialize_dtype(sub) == sub[2][1]

\* the base column's serialize: the null count and the frame counts in the
\* header, the data frame and then, when there is a mask, the mask frame
base_serialize(h, col) ==
    [header |-> [null_count |-> col.null_count,
                 data_frame_count |-> 1,
                 mask_frame_count |-> IF col.mask = None THEN 0 ELSE 1],
     frames |-> IF col.mask = None THEN <<h[col.data]>>
                ELSE <<h[col.data], h[col.mask]>>]

\* header with header[key] = value
SetItem(header, key, value) ==
    [k \in DOMAIN header \cup {key} |-> IF k = key THEN value ELSE header[k]]

serialize(h, self) ==
    LET base   == base_serialize(h, self)
        header == SetItem(base.header, "dtype", serialize_dtype(self.dtype))
    IN  IF "dtype" \in DOMAIN base.header
        THEN [ok |-> FALSE, header |-> base.header, frames |-> base.frames]
        ELSE [ok |-> TRUE, header |-> header, frames |-> base.frames]

\* cls._deserialize_data_mask(deserialize, header, frames): new buffers from
\* the frames
deserialize_data_mask(h, header, frames) ==
    LET dbuf == Buffer(h, frames[1])
        mbuf == IF header["mask_frame_count"] = 0 THEN [h |-> dbuf.h, id |-> None]
                ELSE Buffer(dbuf.h, frames[2])
    IN  [h |-> mbuf.h, data |-> dbuf.id, mask |-> mbuf.id]

\* variant: the header's dtype is ignored and the class's dtype used
deserialize_class_dtype(h, header, frames) ==
    LET dm == deserialize_data_mask(h, header, frames)
    IN  [h |-> dm.h,
         col |-> DatetimeColumn(dm.h, dm.data, dm.mask, header["null_count"],
                                DT_MS)]

deserialize(h, header, frames) ==
    LET dm == deserialize_data_mask(h, header, frames)
    IN  [h |-> dm.h,
         col |-> DatetimeColumn(dm.h, dm.data, dm.mask, header["null_count"],
                                deserialize_dtype(header["dtype"]))]

(* ----------------------- the caller's references ---------------------- *)

\* The caller holds its original column (c, always object 1), the column the
\* last call returned (r) and, after a sort, the indices column (i).
Refs == {"c", "r", "i"}

Deref(ref) == CASE ref = "c" -> 1 [] ref = "r" -> r [] ref = "i" -> i

\* references to a live DatetimeColumn
Receivers ==
    {ref \in Refs : Deref(ref) # 0 /\ objs[Deref(ref)].cls = "DatetimeColumn"}

NoView == View(<<>>, NoCol)

NoScalar == [kind |-> "none", unit |-> "", value |-> 0]

\* the description of a call: what was called, on what, with which arguments
NoArgs ==
    [op |-> "init", via |-> "c", other |-> NoScalar, field |-> "", cmpop |-> "",
     fault |-> "none", ascending |-> TRUE, na_position |-> "", fill |-> <<>>,
     inplace |-> FALSE, dtype |-> "", rhs |-> NoView, src |-> NoView]

\* ---- unreferenced buffers are dropped and the rest renumbered in the order
\* ---- the live columns name them (identities are not observable)
RefList(o1, o2, o3) ==
    <<o1.data, o1.mask, o2.data, o2.mask, o3.data, o3.mask>>

Range(f) == {f[k] : k \in DOMAIN f}

RECURSIVE Dedupe(_, _)
Dedupe(L, acc) ==
    IF L = <<>> THEN acc
    ELSE Dedupe(Tail(L),
                IF Head(L) = None \/ Head(L) \in Range(acc) THEN acc
                ELSE Append(acc, Head(L)))

NewId(ids, b) ==
    IF b = None THEN None ELSE CHOOSE j \in DOMAIN ids : ids[j] = b

Compact(h, ids) == [j \in DOMAIN ids |-> h[ids[j]]]

Renamed(ids, col) ==
    IF col.cls = "none" THEN col
    ELSE [col EXCEPT !.data = NewId(ids, col.data), !.mask = NewId(ids, col.mask)]

\* ---- the effect of a completed call `res` made through reference `via`
Effect(via, res, args) ==
    LET s     == Deref(via)
        tmp   == [objs EXCEPT ![s] = res.self]
        isNew == ~res.same /\ res.out.cls # "none"
        gave  == res.same \/ isNew
        r1    == IF isNew THEN 2
                 ELSE IF res.same THEN (IF s = 1 THEN 1 ELSE 2)
                 ELSE r
        i1    == IF res.out2.cls # "none" THEN 3
                 ELSE IF gave THEN 0 ELSE i
        o2    == IF isNew THEN res.out
                 ELSE IF res.same THEN (IF s = 1 THEN NoCol ELSE tmp[s])
                 ELSE tmp[2]
        o3    == IF res.out2.cls # "none" THEN res.out2
                 ELSE IF gave THEN NoCol ELSE tmp[3]
        L     == Dedupe(RefList(tmp[1], o2, o3), <<>>)
    IN  /\ heap' = Compact(res.h, L)
        /\ objs' = <<Renamed(L, tmp[1]), Renamed(L, o2), Renamed(L, o3)>>
        /\ r' = r1
        /\ i' = i1
        /\ nvtx' = nvtx + res.open
        /\ ret' = [args |-> args,
                   pre |-> View(heap, objs[s]),
                   post |-> View(res.h, res.self),
                   cpre |-> View(heap, objs[1]),
                   raised |-> res.raised, engine |-> res.engine,
                   allocs |-> res.allocs, value |-> res.value,
                   same |-> res.same, returned |-> gave]

\* a call by the caller, who makes at most MaxCalls of them
Step(via, res, args) ==
    /\ calls < MaxCalls
    /\ calls' = calls + 1
    /\ Effect(via, res, args)

(* ----------------------- inputs ---------------------------------------- *)

Scalars ==
    {[kind |-> "Timestamp",  unit |-> "ns", value |-> 1500999999],
     [kind |-> "Timestamp",  unit |-> "ns", value |-> 999999],
     [kind |-> "datetime",   unit |-> "us", value |-> 1500999],
     [kind |-> "datetime64", unit |-> "ms", value |-> 1500],
     [kind |-> "datetime64", unit |-> "s",  value |-> 0],
     [kind |-> "str",        unit |-> "",   value |-> 0]}

Fields == SupportedFields \cup {"week"}

\* the comparisons tried: every operator without a fault, and one with each
\* engine fault
CompareCalls ==
    (CmpOps \X {"none"}) \cup {<<"lt", "alloc">>, <<"eq", "engine">>}

FillScalars ==
    {[kind |-> "datetime64", unit |-> "ms", value |-> 1500],
     [kind |-> "datetime64", unit |-> "s",  value |-> 0]}

\* array-like fill values of length n: two that differ at every position
FillArrays(n) ==
    {[k \in 1..n |-> IF k % 2 = 1 THEN 0 ELSE 1500],
     [k \in 1..n |-> IF k % 2 = 1 THEN 1500 ELSE 0]}

(* ----------------------- initial state --------------------------------- *)

\* a well-formed column built by the constructor, with or without a mask
Init ==
    \E n \in 0..MaxLen :
      \E data \in SeqOfLen(Ticks, n) :
        \E masked \in BOOLEAN :
          \E bits \in SeqOfLen({0, 1}, n) :
            LET h == IF masked THEN <<data, bits>> ELSE <<data>>
            IN  /\ (~masked => bits = [k \in 1..n |-> 1])
                /\ heap = h
                /\ objs = <<DatetimeColumn(h, 1, IF masked THEN 2 ELSE None,
                                           Omitted, DT_MS), NoCol, NoCol>>
                /\ r = 0
                /\ i = 0
                /\ nvtx = 0
                /\ calls = 0
                /\ wire = <<>>
                /\ ret = [args |-> NoArgs, pre |-> NoView, post |-> NoView,
                          cpre |-> NoView, raised |-> "", engine |-> <<>>,
                          allocs |-> 0, value |-> NoValue, same |-> FALSE,
                          returned |-> FALSE]

(* ----------------------- operations ------------------------------------ *)

\* a call can be made: no round trip is in flight and no engine failure has
\* ended the program (an engine failure is fatal to the caller)
Idle == wire = <<>> /\ ret.raised \notin {"MemoryError", "GDFError"}

NormalizeBinopValue ==
    /\ Idle
    /\ \E via \in Receivers : \E other \in Scalars :
         Step(via, normalize_binop_value(heap, objs[Deref(via)], other),
              [NoArgs EXCEPT !.op = "normalize_binop_value", !.via = via,
                             !.other = other])
    /\ UNCHANGED wire

GetDtField ==
    /\ Idle
    /\ \E via \in Receivers : \E field \in Fields :
         Step(via, get_dt_field(heap, objs[Deref(via)], field),
              [NoArgs EXCEPT !.op = "get_dt_field", !.via = via, !.field = field])
    /\ UNCHANGED wire

UnorderedCompare ==
    /\ Idle
    /\ \E via \in Receivers : \E rv \in Receivers :
         \E call \in CompareCalls :
           LET cmpop == call[1]
               fault == call[2]
           IN
           Step(via, unordered_compare(heap, objs[Deref(via)], cmpop,
                                       objs[Deref(rv)], fault),
                [NoArgs EXCEPT !.op = "unordered_compare", !.via = via,
                               !.cmpop = cmpop, !.fault = fault,
                               !.rhs = View(heap, objs[Deref(rv)])])
    /\ UNCHANGED wire

OrderedCompare ==
    /\ Idle
    /\ \E via \in Receivers : \E rv \in Receivers :
         \E call \in CompareCalls :
           LET cmpop == call[1]
               fault == call[2]
           IN
           Step(via, ordered_compare(heap, objs[Deref(via)], cmpop,
                                     objs[Deref(rv)], fault),
                [NoArgs EXCEPT !.op = "ordered_compare", !.via = via,
                               !.cmpop = cmpop, !.fault = fault,
                               !.rhs = View(heap, objs[Deref(rv)])])
    /\ UNCHANGED wire

AsType ==
    /\ Idle
    /\ \E via \in Receivers : \E dtype \in {"self.dtype", "int64", "int16"} :
         Step(via,
              astype(heap, objs[Deref(via)],
                     IF dtype = "self.dtype" THEN objs[Deref(via)].dtype ELSE dtype,
                     dtype = "self.dtype"),
              [NoArgs EXCEPT !.op = "astype", !.via = via, !.dtype = dtype])
    /\ UNCHANGED wire

ToArrow ==
    /\ Idle
    /\ \E via \in Receivers :
         Step(via, to_arrow(heap, objs[Deref(via)]),
              [NoArgs EXCEPT !.op = "to_arrow", !.via = via])
    /\ UNCHANGED wire

DefaultNaValue ==
    /\ Idle
    /\ \E via \in Receivers :
         Step(via, default_na_value(heap, objs[Deref(via)]),
              [NoArgs EXCEPT !.op = "default_na_value", !.via = via])
    /\ UNCHANGED wire

Fillna ==
    /\ Idle
    /\ \E via \in Receivers : \E inplace \in BOOLEAN :
         \E fill \in [scalar : {TRUE}, vals : FillScalars]
                     \cup [scalar : {FALSE},
                           vals : FillArrays(ColLen(heap, objs[Deref(via)]))] :
           Step(via, fillna(heap, objs[Deref(via)], fill, inplace),
                [NoArgs EXCEPT !.op = "fillna", !.via = via, !.inplace = inplace,
                               !.fill = IF fill.scalar
                                        THEN <<np_astype(fill.vals, "ms").value>>
                                        ELSE fill.vals])
    /\ UNCHANGED wire

SortByValues ==
    /\ Idle
    /\ \E via \in Receivers : \E ascending \in BOOLEAN :
         \E na_position \in {"first", "last"} :
           Step(via, sort_by_values(heap, objs[Deref(via)], ascending, na_position),
                [NoArgs EXCEPT !.op = "sort_by_values", !.via = via,
                               !.ascending = ascending,
                               !.na_position = na_position])
    /\ UNCHANGED wire

Min ==
    /\ Idle
    /\ \E via \in Receivers :
         Step(via, min(heap, objs[Deref(via)]),
              [NoArgs EXCEPT !.op = "min", !.via = via])
    /\ UNCHANGED wire

Max ==
    /\ Idle
    /\ \E via \in Receivers :
         Step(via, max(heap, objs[Deref(via)]),
              [NoArgs EXCEPT !.op = "max", !.via = via])
    /\ UNCHANGED wire

\* serialize puts the header and the frames on the wire; the round trip is
\* completed before the caller's next column operation
Serialize ==
    /\ Idle
    /\ \E via \in Receivers :
         LET self == objs[Deref(via)]
             ser  == serialize(heap, self)
         IN  /\ ser.ok
             /\ wire' = <<[header |-> ser.header, frames |-> ser.frames]>>
             /\ Step(via, ReturnValue(heap, self, NoValue, <<>>),
                     [NoArgs EXCEPT !.op = "serialize", !.via = via])

Deserialize ==
    /\ wire # <<>>
    /\ LET de == deserialize(heap, wire[1].header, wire[1].frames)
       IN  Effect("c", Return(de.h, objs[1], de.col, <<>>, 0),
                  [NoArgs EXCEPT !.op = "deserialize", !.src = ret.pre])
    /\ wire' = <<>>
    /\ UNCHANGED calls

Next ==
    \/ NormalizeBinopValue
    \/ GetDtField
    \/ UnorderedCompare
    \/ OrderedCompare
    \/ AsType
    \/ ToArrow
    \/ DefaultNaValue
    \/ Fillna
    \/ SortByValues
    \/ Min
    \/ Max
    \/ Serialize
    \/ Deserialize

Spec == Init /\ [][Next]_vars

(* ----------------------- smaller specifications ------------------------ *)

NextSerialize == SortByValues \/ Serialize \/ Deserialize

SpecSerialize == Init /\ [][NextSerialize]_vars

SpecSort == Init /\ [][SortByValues]_vars

SpecFill == Init /\ [][Fillna]_vars

SpecField == Init /\ [][GetDtField]_vars

SpecCoerce == Init /\ [][NormalizeBinopValue]_vars

NextCompare == Fillna \/ UnorderedCompare \/ OrderedCompare

SpecCompare == Init /\ [][NextCompare]_vars

(* ----------------------- properties ------------------------------------ *)

Op == ret.args.op

\* the column the caller got back from the last call
Returned == View(heap, objs[r])

ValidAt(v, k) == v.mask = <<-1>> \/ v.mask[k] = 1

HasMask(v) == v.mask # <<-1>>

\* C1: deserialize(serialize(C)) equals C in data, mask, null_count and dtype;
\* serialize adds exactly the 'dtype' entry to the base header, and the header
\* and frames on the wire are what deserialize rebuilds the column from.
C1_RoundTrip ==
    /\ Op = "deserialize" => ret.returned /\ ~ret.same /\ Returned = ret.args.src
    /\ wire # <<>> =>
         LET self == objs[Deref(ret.args.via)]
             base == base_serialize(heap, self)
             hdr  == wire[1].header
         IN  /\ "dtype" \notin DOMAIN base.header
             /\ DOMAIN hdr = DOMAIN base.header \cup {"dtype"}
             /\ \A k \in DOMAIN base.header : hdr[k] = base.header[k]
             /\ wire[1].frames = base.frames
             /\ View(deserialize(heap, hdr, wire[1].frames).h,
                     deserialize(heap, hdr, wire[1].frames).col)
                  = [data |-> wire[1].frames[1],
                     mask |-> IF Len(wire[1].frames) = 2 THEN wire[1].frames[2]
                              ELSE <<-1>>,
                     null_count |-> hdr["null_count"],
                     dtype |-> deserialize_dtype(hdr["dtype"])]

\* a masked column with a null has made the round trip
C1_Witness ==
    /\ Op = "deserialize"
    /\ ret.args.src.null_count > 0
    /\ Len(ret.args.src.data) = MaxLen

\* C2: gathering C through the returned indices reproduces the returned keys:
\* data, validity bits and null count.
C2_SortGather ==
    Op = "sort_by_values" =>
        LET C    == ret.pre
            keys == View(heap, objs[r])
            inds == View(heap, objs[i]).data
        IN  /\ ret.returned /\ r # 0 /\ i # 0
            /\ Len(keys.data) = Len(C.data)
            /\ Len(inds) = Len(C.data)
            /\ \A k \in DOMAIN inds : keys.data[k] = C.data[inds[k] + 1]
            /\ HasMask(keys) = HasMask(C)
            /\ HasMask(C) =>
                 /\ Len(keys.mask) = Len(C.mask)
                 /\ \A k \in DOMAIN inds : keys.mask[k] = C.mask[inds[k] + 1]
            /\ keys.null_count = C.null_count

\* a sort that moved a null: descending or nulls first, on a column with a null
\* that is not already in its place
C2_Witness ==
    /\ Op = "sort_by_values"
    /\ ret.pre.null_count > 0
    /\ HasMask(ret.pre)
    /\ View(heap, objs[r]).mask # ret.pre.mask

\* the column fillna produced: the receiver when in place, else the returned one
FillResult == IF ret.args.inplace THEN View(heap, objs[Deref(ret.args.via)])
              ELSE Returned

\* C3: fillna on a column with nulls gives a column without a mask, with
\* null_count 0, where every originally non-null position keeps its value.
C3_FillnaClears ==
    Op = "fillna" =>
        /\ ret.returned = ~ret.args.inplace
        /\ ~HasMask(FillResult)
        /\ FillResult.null_count = 0
        /\ Len(FillResult.data) = Len(ret.pre.data)
        /\ \A k \in DOMAIN ret.pre.data :
             ValidAt(ret.pre, k) => FillResult.data[k] = ret.pre.data[k]

C3_Witness ==
    /\ Op = "fillna"
    /\ ~ret.args.inplace
    /\ ret.pre.null_count > 0
    /\ ret.pre.null_count < Len(ret.pre.data)

\* C4: get_dt_field with a supported field returns a new int16 column of the
\* same length whose mask is the source's; the source is unchanged.
C4_FieldMask ==
    (Op = "get_dt_field" /\ ret.args.field \in SupportedFields) =>
        /\ ret.raised = ""
        /\ ret.returned /\ ~ret.same
        /\ Returned.dtype = "int16"
        /\ Len(Returned.data) = Len(ret.pre.data)
        /\ Returned.mask = ret.pre.mask
        /\ Returned.null_count = ret.pre.null_count
        /\ ret.post = ret.pre

C4_Witness ==
    /\ Op = "get_dt_field"
    /\ ret.args.field = "second"
    /\ ret.pre.null_count > 0
    /\ ret.pre.null_count < Len(ret.pre.data)
    /\ \E k \in DOMAIN Returned.data : Returned.data[k] = 1

\* C5: a nanosecond Timestamp of value v gives a column of the receiver's
\* length and dtype whose every entry is v divided by 10^6.
C5_TimestampTicks ==
    (Op = "normalize_binop_value" /\ ret.args.other.kind = "Timestamp") =>
        /\ ret.raised = ""
        /\ ret.returned
        /\ Len(Returned.data) = Len(ret.pre.data)
        /\ \A k \in DOMAIN Returned.data :
             Returned.data[k] = ret.args.other.value \div 1000000
        /\ Returned.dtype = ret.pre.dtype

C5_Witness ==
    /\ Op = "normalize_binop_value"
    /\ ret.args.other.kind = "Timestamp"
    /\ ret.args.other.value > 1000000
    /\ Len(ret.pre.data) = MaxLen

\* C6: each boundary error is raised before any engine call, with no output
\* column allocated and the receiver unchanged.
C6_ErrorsAtBoundary ==
    LET clean == /\ ret.raised # ""
                 /\ ret.engine = <<>>
                 /\ ret.allocs = 0
                 /\ ret.post = ret.pre
    IN  /\ (Op = "normalize_binop_value" /\ ret.args.other.kind = "str") => clean
        /\ (Op = "get_dt_field" /\ ret.args.field \notin SupportedFields) => clean
        /\ (Op = "default_na_value" /\ DtypeKind(ret.pre.dtype) # "M") => clean

CompareOk(lhs, rhs, out) ==
    /\ out.dtype = "bool"
    /\ Len(out.data) = Len(lhs.data)
    /\ HasMask(out) = (HasMask(lhs) \/ HasMask(rhs))
    /\ out.null_count =
         IF HasMask(lhs) \/ HasMask(rhs)
         THEN Cardinality({k \in DOMAIN lhs.data : ~(ValidAt(lhs, k) /\ ValidAt(rhs, k))})
         ELSE 0

\* C7: a comparison returns a boolean column of lhs's length that has a mask
\* exactly when lhs or rhs has one, with the null count the engine returned;
\* ordered_compare and unordered_compare agree.
C7_Compare ==
    /\ (Op \in {"ordered_compare", "unordered_compare"} /\ ret.raised = "") =>
         /\ ret.returned /\ ~ret.same
         /\ CompareOk(ret.pre, ret.args.rhs, Returned)
    /\ \A a \in Receivers : \A b \in Receivers : \A op \in CmpOps :
         LET o == ordered_compare(heap, objs[Deref(a)], op, objs[Deref(b)], "none")
             u == unordered_compare(heap, objs[Deref(a)], op, objs[Deref(b)], "none")
         IN  /\ View(o.h, o.out) = View(u.h, u.out)
             /\ CompareOk(View(heap, objs[Deref(a)]), View(heap, objs[Deref(b)]),
                          View(o.h, o.out))

\* a comparison of an unmasked lhs with a masked rhs that has a null
C7_Witness ==
    /\ Op \in {"ordered_compare", "unordered_compare"}
    /\ ret.raised = ""
    /\ ~HasMask(ret.pre)
    /\ HasMask(ret.args.rhs)
    /\ ret.args.rhs.null_count > 0
    /\ Len(ret.pre.data) = MaxLen

WellFormed(h, col) ==
    IF col.mask = None THEN col.null_count = 0
    ELSE /\ col.null_count = CountUnset(h[col.mask])
         /\ Len(h[col.mask]) = Len(h[col.data])

\* C8: every column an operation returned has a null count that agrees with its
\* mask (0 without a mask) and a mask as long as its data.
C8_NullCountConsistent ==
    \A k \in {1, 2, 3} : objs[k].cls # "none" => WellFormed(heap, objs[k])

\* a second call, on a returned masked column with nulls, returned a column
C8_Witness ==
    /\ calls = MaxCalls
    /\ ret.args.via = "r"
    /\ Op = "sort_by_values"
    /\ r = 2 /\ i = 3
    /\ objs[2].null_count > 0

ReadOnlyOps ==
    {"get_dt_field", "normalize_binop_value", "ordered_compare",
     "unordered_compare", "astype", "sort_by_values", "min", "max", "to_arrow",
     "serialize"}

ReceiverUnchanged ==
    (Op \in ReadOnlyOps \/ (Op = "fillna" /\ ~ret.args.inplace)) =>
        ret.post = ret.pre

\* C9 as stated: the listed operations leave their receiver as it was, and
\* fillna(inplace=True) on a returned column leaves the original column as it was.
C9_Original ==
    /\ ReceiverUnchanged
    /\ (Op = "fillna" /\ ret.args.inplace /\ ret.args.via # "c") =>
         View(heap, objs[1]) = ret.cpre

\* C9 as amended: ... unless the returned column is the original column itself,
\* which astype returns when it is given the receiver's own dtype object.
C9_Amended ==
    /\ ReceiverUnchanged
    /\ (Op = "fillna" /\ ret.args.inplace /\ ret.args.via # "c"
          /\ Deref(ret.args.via) # 1) =>
         View(heap, objs[1]) = ret.cpre
    /\ (Op = "astype" /\ ret.args.dtype = "self.dtype") => ret.same

\* fillna(inplace=True) on a returned column that shares its mask buffer with
\* the original, which has nulls
C9_Witness ==
    /\ Op = "fillna"
    /\ ret.args.inplace
    /\ ret.args.via = "r"
    /\ r = 2
    /\ ret.pre.null_count > 0
    /\ objs[1].null_count > 0
    /\ ret.post # ret.pre

\* C10: no profiling range is left open.
C10_RangesClosed == nvtx = 0

====
